---- MODULE Spec2Model ----
(***************************************************************************)
(* lmkeys: a read-only pager over an LMDB store (lmkeys/viewer.py) and the *)
(* key/value display helpers it uses (lmkeys/utils.py).                    *)
(*                                                                         *)
(* Python values are modelled as follows:                                  *)
(*   bytes        a sequence of integers 0..255                            *)
(*   str (text)   a sequence of Unicode code points (format_key) or a      *)
(*                TLA+ string (labels, ordinals, the info line)            *)
(*   None         the sequence <<-1>>, which is no byte sequence           *)
(*   a call       a record [raised, value]: the exception raised ("" for   *)
(*                a normal return) and the value returned                  *)
(***************************************************************************)
EXTENDS Integers, Sequences, FiniteSets, TLC

VARIABLES
    store,          \* indices of the entries the on-disk store holds now
    phase,          \* "constructed" | "mounted" | "exited"
    env,            \* self.env: "None" | "open" | "closed"
    total_keys,     \* self.total_keys (NoneKeys while it is None)
    page_size,      \* self.page_size
    current_page,   \* self.current_page
    rows,           \* the rows of the #keys_table DataTable
    info,           \* the text of the #info Static
    last,           \* the last call made: its name, argument and pre-state
    arg,            \* classifier run: the value/key the helper is applied to
    fn,             \* classifier run: the helper applied ("" before)
    ret             \* classifier run: the call's outcome

vars == <<store, phase, env, total_keys, page_size, current_page, rows, info,
          last, arg, fn, ret>>

pagerVars == <<store, phase, env, total_keys, page_size, current_page, rows,
               info, last>>

classVars == <<arg, fn, ret>>

(***************************************************************************)
(* Bounds of the model.                                                    *)
(***************************************************************************)
\* the store holds at most MaxTotal entries
MaxTotal == 5
\* --page-size is drawn from 1..MaxPageSize
MaxPageSize == 3
\* classifier inputs: every byte string of length <= MaxPrefix over
\* SampleBytes, followed by 0..MaxPad copies of the letter "A"
MaxPrefix == 3
MaxPad == 6

(***************************************************************************)
(* Python values.                                                          *)
(***************************************************************************)
None == <<-1>>

Ret(v) == [raised |-> "", value |-> v]

Raise(e) == [raised |-> e, value |-> ""]

\* self.total_keys: Optional[int] = None
NoneKeys == -1

(***************************************************************************)
(* bytes.decode('utf-8'), strict: the well-formed sequences of the Unicode *)
(* standard (no overlong forms, no surrogates, nothing above U+10FFFF).    *)
(* The outcome is [ok, text]; ok = FALSE stands for UnicodeDecodeError.    *)
(***************************************************************************)
IsCont(b) == b >= 128 /\ b <= 191

RECURSIVE utf8_decode(_)
utf8_decode(b) ==
    IF b = <<>> THEN [ok |-> TRUE, text |-> <<>>]
    ELSE
      LET b1 == b[1]
          n  == IF b1 < 128 THEN 1
                ELSE IF b1 >= 194 /\ b1 <= 223 THEN 2
                ELSE IF b1 >= 224 /\ b1 <= 239 THEN 3
                ELSE IF b1 >= 240 /\ b1 <= 244 THEN 4
                ELSE 0
          wellFormed ==
              /\ n > 0
              /\ Len(b) >= n
              /\ \A k \in 2..n : IsCont(b[k])
              /\ (b1 = 224 => b[2] >= 160)
              /\ (b1 = 237 => b[2] <= 159)
              /\ (b1 = 240 => b[2] >= 144)
              /\ (b1 = 244 => b[2] <= 143)
          cp == IF n = 1 THEN b1
                ELSE IF n = 2 THEN (b1 - 192) * 64 + (b[2] - 128)
                ELSE IF n = 3 THEN (b1 - 224) * 4096 + (b[2] - 128) * 64
                                   + (b[3] - 128)
                ELSE (b1 - 240) * 262144 + (b[2] - 128) * 4096
                     + (b[3] - 128) * 64 + (b[4] - 128)
      IN  IF ~wellFormed THEN [ok |-> FALSE, text |-> <<>>]
          ELSE LET rest == utf8_decode(SubSeq(b, n + 1, Len(b)))
               IN  IF rest.ok
                   THEN [ok |-> TRUE, text |-> <<cp>> \o rest.text]
                   ELSE rest

(***************************************************************************)
(* str.isprintable() for one character: false for the Unicode categories   *)
(* "Other" and "Separator", the ASCII space excepted.  The table is exact  *)
(* for U+0000..U+00FF, the range the sampled bytes decode into; above it   *)
(* only the separators and format characters listed are tabulated.         *)
(***************************************************************************)
char_isprintable(cp) ==
    IF cp < 256
    THEN ~(cp <= 31 \/ (cp >= 127 /\ cp <= 160) \/ cp = 173)
    ELSE ~(\/ cp = 5760
           \/ (cp >= 8192 /\ cp <= 8207)
           \/ (cp >= 8232 /\ cp <= 8239)
           \/ (cp >= 8287 /\ cp <= 8303)
           \/ cp = 12288
           \/ (cp >= 57344 /\ cp <= 63743)
           \/ cp = 65279)

\* str.isprintable(): every character is printable (true of the empty str)
str_isprintable(s) == \A k \in 1..Len(s) : char_isprintable(s[k])

\* c in '\n\r\t'
InNlCrTab(cp) == cp \in {10, 13, 9}

(***************************************************************************)
(* utils.format_key                                                        *)
(***************************************************************************)
\* one lowercase hexadecimal digit, as a code point
HexDigit(d) == IF d < 10 THEN 48 + d ELSE 87 + d

\* bytes.hex()
RECURSIVE bytes_hex(_)
bytes_hex(b) ==
    IF b = <<>> THEN <<>>
    ELSE <<HexDigit(b[1] \div 16), HexDigit(b[1] % 16)>> \o bytes_hex(Tail(b))

format_key(key) ==
    LET d == utf8_decode(key)
    IN  IF d.ok THEN d.text ELSE <<48, 120>> \o bytes_hex(key)

(***************************************************************************)
(* utils.get_value_type                                                    *)
(***************************************************************************)
\* the length test tried before the text test
get_value_type_len_first(value) ==
    IF value = None THEN "None"
    ELSE IF Len(value) \in {1, 2, 4, 8} THEN "int/bytes"
    ELSE LET d == utf8_decode(value)
         IN  IF d.ok /\ (\/ str_isprintable(d.text)
                         \/ \A k \in 1..Len(d.text) :
                               ~char_isprintable(d.text[k])
                                   => InNlCrTab(d.text[k]))
             THEN "str"
             ELSE "bytes"

get_value_type(value) ==
    IF value = None THEN "None"
    ELSE LET d == utf8_decode(value)
         IN  IF d.ok /\ (\/ str_isprintable(d.text)
                         \/ \A k \in 1..Len(d.text) :
                               ~char_isprintable(d.text[k])
                                   => InNlCrTab(d.text[k]))
             THEN "str"
             ELSE IF Len(value) \in {1, 2, 4, 8} THEN "int/bytes"
             ELSE "bytes"

(***************************************************************************)
(* utils.format_value_info: len(None) raises TypeError.                    *)
(***************************************************************************)
format_value_info(value) ==
    LET value_type == get_value_type(value)
    IN  IF value = None THEN Raise("TypeError")
        ELSE Ret(value_type \o " (" \o ToString(Len(value)) \o " bytes)")

(***************************************************************************)
(* viewer.py line 135, the value column of a row:                          *)
(*   format_value_info(value) if value is not None else "None"             *)
(***************************************************************************)
\* the value column without the "is not None" guard
value_info_unguarded(value) == format_value_info(value)

value_info(value) ==
    IF value # None THEN format_value_info(value) ELSE Ret("None")

(***************************************************************************)
(* The store: an LMDB environment whose entries the cursor yields in       *)
(* ascending (bytewise lexicographic) key order.  Entry i of the universe  *)
(* 1..MaxTotal has key KeyOf(i) and value ValueOf(i); `store` is the set   *)
(* of entries present.                                                     *)
(***************************************************************************)
KeyOf(i) ==
    IF i % 3 = 1 THEN <<64 + i>>              \* an ASCII letter
    ELSE IF i % 3 = 2 THEN <<255, 64 + i>>    \* not UTF-8
    ELSE <<195, 128 + i>>                     \* a two-byte UTF-8 letter

ValueOf(i) ==
    IF i % 5 = 1 THEN <<104, 101, 108, 108, 111>>   \* b'hello'
    ELSE IF i % 5 = 2 THEN <<1, 2, 3, 4>>
    ELSE IF i % 5 = 3 THEN <<255, 254, 253>>
    ELSE IF i % 5 = 4 THEN <<9, 10>>                \* b'\t\n'
    ELSE <<>>

\* a < b in LMDB's default key order
RECURSIVE BytesLess(_, _)
BytesLess(a, b) ==
    IF b = <<>> THEN FALSE
    ELSE IF a = <<>> THEN TRUE
    ELSE IF a[1] # b[1] THEN a[1] < b[1]
    ELSE BytesLess(Tail(a), Tail(b))

\* the entries of a read transaction's snapshot, in cursor order
Db(S) ==
    [n \in 1..Cardinality(S) |->
        LET i == CHOOSE i \in S :
                   Cardinality({j \in S : BytesLess(KeyOf(j), KeyOf(i))}) = n - 1
        IN  [key |-> KeyOf(i), value |-> ValueOf(i)]]

(***************************************************************************)
(* lmdb.Cursor over the snapshot db.  pos = 0: unpositioned; eof: the last *)
(* move ran off the end.  key()/value() of an unpositioned cursor are b''. *)
(***************************************************************************)
txn_cursor == [pos |-> 0, eof |-> FALSE]

cursor_first(db) ==
    IF Len(db) > 0 THEN [ok |-> TRUE, c |-> [pos |-> 1, eof |-> FALSE]]
    ELSE [ok |-> FALSE, c |-> [pos |-> 0, eof |-> TRUE]]

cursor_next(db, c) ==
    IF c.pos = 0 /\ ~c.eof THEN cursor_first(db)
    ELSE IF c.pos > 0 /\ c.pos < Len(db)
    THEN [ok |-> TRUE, c |-> [pos |-> c.pos + 1, eof |-> FALSE]]
    ELSE [ok |-> FALSE, c |-> [pos |-> 0, eof |-> TRUE]]

cursor_key(db, c) == IF c.pos > 0 THEN db[c.pos].key ELSE <<>>

cursor_value(db, c) == IF c.pos > 0 THEN db[c.pos].value ELSE <<>>

(***************************************************************************)
(* viewer.LMDBViewer.load_page                                             *)
(***************************************************************************)
\* (self.total_keys + self.page_size - 1) // self.page_size
TotalPages(total, size) == (total + size - 1) \div size

\* a walk that does not skip
SkipNothing(db, c, n) == c

\* lines 124-126: for _ in range(start_idx): if not cursor.next(): break
RECURSIVE SkipToStart(_, _, _)
SkipToStart(db, c, n) ==
    IF n <= 0 THEN c
    ELSE LET r == cursor_next(db, c)
         IN  IF ~r.ok THEN r.c ELSE SkipToStart(db, r.c, n - 1)

\* lines 129-139: for i in range(start_idx, end_idx): ...
RECURSIVE CollectRows(_, _, _, _, _)
CollectRows(db, c, i, end_idx, acc) ==
    IF i >= end_idx THEN acc
    ELSE LET key   == cursor_key(db, c)
             value == cursor_value(db, c)
             acc2  == IF key # None
                      THEN Append(acc, <<ToString(i + 1), format_key(key),
                                         value_info(value).value>>)
                      ELSE acc
             r     == cursor_next(db, c)
         IN  IF ~r.ok THEN acc2 ELSE CollectRows(db, r.c, i + 1, end_idx, acc2)

\* lines 118-139: the rows fetched for [start_idx, end_idx)
FetchRows(db, start_idx, end_idx) ==
    LET f == cursor_first(db)
    IN  IF f.ok
        THEN CollectRows(db, SkipToStart(db, f.c, start_idx), start_idx,
                         end_idx, <<>>)
        ELSE <<>>

\* self.db_path.name
db_name == "db"

\* lines 147-151: the info line
InfoText(page, total_pages, start_idx, end_idx, total) ==
    "Page " \o ToString(page + 1) \o "/" \o ToString(total_pages) \o " | "
    \o "Showing " \o ToString(start_idx + 1) \o "-" \o ToString(end_idx)
    \o " of " \o ToString(total) \o " keys | " \o "DB: " \o db_name

\* variants of the range test of line 106
PageRejectedUnlessEmpty(page, total_pages) ==
    page < 0 \/ (total_pages > 0 /\ page >= total_pages)

PageRejectedPastEnd(page, total_pages) == page < 0 \/ page > total_pages

PageRejectedNoLowerBound(page, total_pages) == page >= total_pages

\* line 106: the request is out of range
PageRejected(page, total_pages) == page < 0 \/ page >= total_pages

\* an end index one short
EndIdxShort(start_idx, size, total) ==
    IF start_idx + size < total THEN start_idx + size - 1 ELSE total - 1

\* line 111
EndIdx(start_idx, size, total) ==
    IF start_idx + size < total THEN start_idx + size ELSE total

\* a table that is not cleared
table_keep(t) == t

\* line 115: table.clear()
table_clear(t) == <<>>

\* lines 142-143: for row in rows: table.add_row(*row)
table_add_rows(t, new) == t \o new

\* The UI state [current_page, rows, info] that load_page(page) leaves when
\* called in UI state ui with self.env = e, self.total_keys = total and the
\* store holding the entries S.
load_page(ui, e, total, S, page) ==
    IF e # "open" \/ total = NoneKeys THEN ui
    ELSE
      LET total_pages == TotalPages(total, page_size)
      IN  IF PageRejected(page, total_pages) THEN ui
          ELSE
            LET start_idx == page * page_size
                end_idx   == EndIdx(start_idx, page_size, total)
                fetched   == FetchRows(Db(S), start_idx, end_idx)
            IN  [current_page |-> page,
                 rows |-> table_add_rows(table_clear(ui.rows), fetched),
                 info |-> InfoText(page, total_pages, start_idx, end_idx,
                                   total)]

\* a next that jumps two pages
NextTargetTwo(cp) == cp + 2

\* the page action_next_page asks for (line 159)
NextTarget(cp) == cp + 1

\* the page action_prev_page asks for (line 164)
PrevTarget(cp) == cp - 1

\* viewer.LMDBViewer.action_next_page
action_next_page(ui, e, total, S) ==
    IF total = NoneKeys THEN ui
    ELSE IF ui.current_page < TotalPages(total, page_size) - 1
    THEN load_page(ui, e, total, S, NextTarget(ui.current_page))
    ELSE ui

\* viewer.LMDBViewer.action_prev_page
action_prev_page(ui, e, total, S) ==
    IF ui.current_page > 0
    THEN load_page(ui, e, total, S, PrevTarget(ui.current_page))
    ELSE ui

(***************************************************************************)
(* The pager as a state machine.                                           *)
(***************************************************************************)
\* the UI state now
Ui == [current_page |-> current_page, rows |-> rows, info |-> info]

SetUi(u) ==
    /\ current_page' = u.current_page
    /\ rows' = u.rows
    /\ info' = u.info

\* `last` after a call: what was called, with what, from which UI state
Called(op, page) == last' = [op |-> op, page |-> page, pre |-> Ui]

\* LMDBViewer.__init__, with the store on disk and --page-size drawn
Init ==
    /\ store \in SUBSET (1..MaxTotal)
    /\ page_size \in 1..MaxPageSize
    /\ phase = "constructed"
    /\ env = "None"
    /\ total_keys = NoneKeys
    /\ current_page = 0
    /\ rows = <<>>
    /\ info = ""
    /\ last = [op |-> "init", page |-> 0,
               pre |-> [current_page |-> 0, rows |-> <<>>, info |-> ""]]
    /\ arg = <<>>
    /\ fn = ""
    /\ ret = Ret("")

\* LMDBViewer.on_mount: lmdb.open fails and the app exits, or the entry
\* count is recorded and page 0 is loaded
on_mount ==
    /\ phase = "constructed"
    /\ \E opened \in BOOLEAN :
         IF opened
         THEN /\ env' = "open"
              /\ total_keys' = Cardinality(store)
              /\ phase' = "mounted"
              /\ SetUi(load_page(Ui, "open", Cardinality(store), store, 0))
              /\ Called("on_mount", 0)
         ELSE /\ phase' = "exited"
              /\ Called("on_mount_error", 0)
              /\ UNCHANGED <<env, total_keys, current_page, rows, info>>
    /\ UNCHANGED <<store, page_size, classVars>>

\* load_page(page), for any page index
Load ==
    /\ phase # "exited"
    /\ \E page \in -1..MaxTotal :
         /\ SetUi(load_page(Ui, env, total_keys, store, page))
         /\ Called("load_page", page)
    /\ UNCHANGED <<store, phase, env, total_keys, page_size, classVars>>

\* key "l" / "right"
NextPage ==
    /\ phase # "exited"
    /\ SetUi(action_next_page(Ui, env, total_keys, store))
    /\ Called("next_page", 0)
    /\ UNCHANGED <<store, phase, env, total_keys, page_size, classVars>>

\* key "h" / "left"
PrevPage ==
    /\ phase # "exited"
    /\ SetUi(action_prev_page(Ui, env, total_keys, store))
    /\ Called("prev_page", 0)
    /\ UNCHANGED <<store, phase, env, total_keys, page_size, classVars>>

\* key "q": LMDBViewer.on_unmount closes the environment
on_unmount ==
    /\ phase = "mounted"
    /\ phase' = "exited"
    /\ env' = IF env # "None" THEN "closed" ELSE env
    /\ Called("on_unmount", 0)
    /\ UNCHANGED <<store, total_keys, page_size, current_page, rows, info,
                   classVars>>

Next == on_mount \/ Load \/ NextPage \/ PrevPage \/ on_unmount

\* the viewer alone: nothing else writes to the store during the session
Spec == Init /\ [][Next]_vars

(***************************************************************************)
(* Total-count drift: the environment is opened with lock=False, and every *)
(* load_page begins a new read transaction, so another process may commit  *)
(* a deletion or an insertion between two calls.                           *)
(***************************************************************************)
ExternalDelete ==
    /\ phase # "exited"
    /\ \E i \in store : store' = store \ {i}
    /\ Called("external_delete", 0)
    /\ UNCHANGED <<phase, env, total_keys, page_size, current_page, rows,
                   info, classVars>>

ExternalInsert ==
    /\ phase # "exited"
    /\ \E i \in (1..MaxTotal) \ store : store' = store \cup {i}
    /\ Called("external_insert", 0)
    /\ UNCHANGED <<phase, env, total_keys, page_size, current_page, rows,
                   info, classVars>>

NextDrift ==
    \/ on_mount \/ Load \/ NextPage \/ PrevPage \/ on_unmount
    \/ ExternalDelete \/ ExternalInsert

SpecDrift == Init /\ [][NextDrift]_vars

(***************************************************************************)
(* The display helpers, each applied once to a drawn input.                *)
(***************************************************************************)
SampleBytes == {65, 10, 1, 194, 195, 160, 255}

RECURSIVE BytesUpTo(_)
BytesUpTo(n) ==
    IF n = 0 THEN {<<>>}
    ELSE LET shorter == BytesUpTo(n - 1)
         IN  shorter \cup {Append(b, x) : b \in shorter, x \in SampleBytes}

Pad(k) == [j \in 1..k |-> 65]

SampleValues == {b \o Pad(k) : b \in BytesUpTo(MaxPrefix), k \in 0..MaxPad}

InitClassify ==
    /\ arg \in SampleValues \cup {None}
    /\ fn = ""
    /\ ret = Ret("")
    /\ store = {}
    /\ page_size = 1
    /\ phase = "constructed"
    /\ env = "None"
    /\ total_keys = NoneKeys
    /\ current_page = 0
    /\ rows = <<>>
    /\ info = ""
    /\ last = [op |-> "init", page |-> 0,
               pre |-> [current_page |-> 0, rows |-> <<>>, info |-> ""]]

CallGetValueType ==
    /\ fn = ""
    /\ fn' = "get_value_type"
    /\ ret' = Ret(get_value_type(arg))
    /\ UNCHANGED <<arg, pagerVars>>

CallFormatValueInfo ==
    /\ fn = ""
    /\ fn' = "format_value_info"
    /\ ret' = format_value_info(arg)
    /\ UNCHANGED <<arg, pagerVars>>

\* the value column as load_page computes it (line 135)
CallValueInfo ==
    /\ fn = ""
    /\ fn' = "value_info"
    /\ ret' = value_info(arg)
    /\ UNCHANGED <<arg, pagerVars>>

\* the key column (line 134, reached only with key is not None)
CallFormatKey ==
    /\ fn = ""
    /\ arg # None
    /\ fn' = "format_key"
    /\ ret' = Ret(format_key(arg))
    /\ UNCHANGED <<arg, pagerVars>>

NextClassify ==
    CallGetValueType \/ CallFormatValueInfo \/ CallValueInfo \/ CallFormatKey

SpecClassify == InitClassify /\ [][NextClassify]_vars

(***************************************************************************)
(* Vocabulary of the properties.                                           *)
(***************************************************************************)
\* ceil(total / size), and 0 when total = 0
CeilPages(total, size) ==
    CHOOSE n \in 0..total :
        /\ n * size >= total
        /\ (n = 0 \/ (n - 1) * size < total)

Min(a, b) == IF a < b THEN a ELSE b

PageStart(p) == p * page_size

PageEnd(p) == Min(PageStart(p) + page_size, total_keys)

\* the session has recorded the entry count and the environment is open
Loaded == env = "open" /\ total_keys # NoneKeys

\* the last call was load_page(p) on an open session
LoadedPage(p) == Loaded /\ last.op = "load_page" /\ last.page = p

\* the last call was a load_page the range test let through
LoadAccepted ==
    /\ Loaded
    /\ last.op = "load_page"
    /\ last.page \in 0..(CeilPages(total_keys, page_size) - 1)

\* what load_page(p) would leave if called now
LoadNow(p) == load_page(Ui, env, total_keys, store, p)

\* the row of position i (0-based) of the store
EntryRow(i) ==
    LET e == Db(store)[i + 1]
    IN  <<ToString(i + 1), format_key(e.key),
          get_value_type(e.value) \o " (" \o ToString(Len(e.value))
              \o " bytes)">>

RECURSIVE SumRowCounts(_)
SumRowCounts(n) ==
    IF n = 0 THEN 0 ELSE SumRowCounts(n - 1) + Len(LoadNow(n - 1).rows)

(***************************************************************************)
(* C1 as stated: on an empty store load(0) is accepted: it leaves an empty *)
(* row batch, a pagination summary, and current_page = 0.                  *)
(***************************************************************************)
C1_EmptyStoreLoadAccepted ==
    (total_keys = 0 /\ (LoadedPage(0) \/ (Loaded /\ last.op = "on_mount")))
        => /\ TotalPages(total_keys, page_size) = 0
           /\ rows = <<>>
           /\ info # ""
           /\ current_page = 0

(***************************************************************************)
(* C1 as amended: on an empty store total_pages is 0 and load(0) is        *)
(* rejected like any other page: no row batch and no pagination summary    *)
(* are produced; the UI is left as it was, with current_page = 0.          *)
(***************************************************************************)
C1_EmptyStoreLoadRejected ==
    (total_keys = 0 /\ Loaded)
        => /\ TotalPages(total_keys, page_size) = 0
           /\ current_page = 0
           /\ rows = <<>>
           /\ info = ""
           /\ (last.op = "load_page" => Ui = last.pre)

C1_Witness == total_keys = 0 /\ LoadedPage(0)

(***************************************************************************)
(* C2: with total > 0, load(page) with page < 0 or page >= total_pages     *)
(* changes nothing: current_page, the rows and the info line are those of  *)
(* before the call.                                                        *)
(***************************************************************************)
C2_OutOfRangeIgnored ==
    (/\ Loaded
     /\ last.op = "load_page"
     /\ total_keys > 0
     /\ (last.page < 0 \/ last.page >= CeilPages(total_keys, page_size)))
        => Ui = last.pre

C2_Witness ==
    /\ Loaded
    /\ last.op = "load_page"
    /\ total_keys > 0
    /\ last.page = CeilPages(total_keys, page_size)
    /\ current_page > 0
    /\ rows # <<>>

(***************************************************************************)
(* C3: with the store holding exactly total entries, the row counts of     *)
(* load(0) .. load(total_pages-1) sum to total, and every accepted load(p) *)
(* produces end - start rows, start = p*page_size, end = min(start +       *)
(* page_size, total).                                                      *)
(***************************************************************************)
C3_RowCounts ==
    (Loaded /\ Cardinality(store) = total_keys)
        => LET tp == CeilPages(total_keys, page_size)
           IN  /\ TotalPages(total_keys, page_size) = tp
               /\ SumRowCounts(tp) = total_keys
               /\ \A p \in 0..(tp - 1) :
                     Len(LoadNow(p).rows) = PageEnd(p) - PageStart(p)
               /\ (LoadAccepted =>
                     Len(rows) = PageEnd(last.page) - PageStart(last.page))

C3_Witness ==
    /\ LoadAccepted
    /\ Cardinality(store) = total_keys
    /\ CeilPages(total_keys, page_size) >= 2
    /\ last.page = CeilPages(total_keys, page_size) - 1
    /\ Len(rows) < page_size

(***************************************************************************)
(* C4: after an accepted load(p) on a store holding exactly total entries  *)
(* the rows are, in order, one per position i in [start, end): ordinal     *)
(* i+1 with the key and the value of the i-th entry in ascending key       *)
(* order, whatever pages were loaded before.                               *)
(***************************************************************************)
C4_RowsOfPage ==
    (LoadAccepted /\ Cardinality(store) = total_keys)
        => /\ current_page = last.page
           /\ rows = [k \in 1..(PageEnd(last.page) - PageStart(last.page))
                        |-> EntryRow(PageStart(last.page) + k - 1)]

\* 5 entries, page_size 2: load(2), after another page, shows ordinal 5 only
C4_Witness ==
    /\ LoadAccepted
    /\ total_keys = 5
    /\ page_size = 2
    /\ last.page = 2
    /\ last.pre.current_page = 1
    /\ Len(rows) = 1
    /\ rows[1][1] = "5"

(***************************************************************************)
(* C5: next() is load(current_page + 1) and prev() is load(current_page -  *)
(* 1): next() moves one page up and reloads when current_page <            *)
(* total_pages - 1 and changes nothing on the last page or an empty store; *)
(* prev() moves one page down and reloads when current_page > 0 and        *)
(* changes nothing on the first page.                                      *)
(***************************************************************************)
C5_NextPrevAreLoads ==
    LET pre == last.pre
        tp  == CeilPages(total_keys, page_size)
    IN  /\ (Loaded /\ last.op = "next_page")
            => /\ Ui = load_page(pre, env, total_keys, store,
                                 pre.current_page + 1)
               /\ IF pre.current_page < tp - 1
                  THEN /\ current_page = pre.current_page + 1
                       /\ Ui = LoadNow(current_page)
                  ELSE Ui = pre
        /\ (Loaded /\ last.op = "prev_page")
            => /\ Ui = load_page(pre, env, total_keys, store,
                                 pre.current_page - 1)
               /\ IF pre.current_page > 0
                  THEN /\ current_page = pre.current_page - 1
                       /\ Ui = LoadNow(current_page)
                  ELSE Ui = pre

C5_Witness ==
    /\ Loaded
    /\ last.op = "next_page"
    /\ current_page = last.pre.current_page + 1
    /\ current_page = CeilPages(total_keys, page_size) - 1
    /\ rows # last.pre.rows

(***************************************************************************)
(* C6: after any sequence of load/next/prev calls the current page's range *)
(* satisfies 0 <= start <= end <= total, with start = end only when total  *)
(* = 0; current_page is in [0, total_pages-1] when total > 0 and is 0 when *)
(* total = 0.                                                              *)
(***************************************************************************)
C6_PageRange ==
    (total_keys # NoneKeys)
        => LET start == PageStart(current_page)
               end   == PageEnd(current_page)
           IN  /\ 0 <= start /\ start <= end /\ end <= total_keys
               /\ (start = end => total_keys = 0)
               /\ (total_keys > 0 =>
                     current_page \in
                        0..(CeilPages(total_keys, page_size) - 1))
               /\ (total_keys = 0 => current_page = 0)

C6_Witness ==
    /\ Loaded
    /\ last.op \in {"load_page", "next_page", "prev_page"}
    /\ CeilPages(total_keys, page_size) >= 3
    /\ current_page = CeilPages(total_keys, page_size) - 1
    /\ PageEnd(current_page) - PageStart(current_page) < page_size

(***************************************************************************)
(* C7: load is idempotent: load(p) called again on the unchanged store     *)
(* leaves the same current_page, the same rows and the same info line.     *)
(***************************************************************************)
C7_LoadIdempotent ==
    (Loaded /\ last.op = "load_page") => LoadNow(last.page) = Ui

C7_Witness ==
    /\ LoadAccepted
    /\ rows # <<>>
    /\ last.pre.rows # <<>>
    /\ last.pre.current_page # current_page

(***************************************************************************)
(* C8: the value description of a row is total: "None", with no byte       *)
(* count, for an absent value, and "{label} ({len} bytes)" for a present   *)
(* one, label being get_value_type's; no error is raised.                  *)
(***************************************************************************)
C8_DescribeValueTotal ==
    (fn = "value_info")
        => /\ ret.raised = ""
           /\ IF arg = None
              THEN ret.value = "None"
              ELSE /\ ret.value = get_value_type(arg) \o " ("
                                  \o ToString(Len(arg)) \o " bytes)"
                   /\ get_value_type(arg) \in {"str", "int/bytes", "bytes"}

C8_Witness == fn = "value_info" /\ arg = None /\ ret.value = "None"

(***************************************************************************)
(* C9: get_value_type follows the ordered table: absent -> "None"; valid   *)
(* UTF-8 whose non-printable characters are all newline, carriage return   *)
(* or tab -> "str" (whatever the length, 0, 1, 2, 4 and 8 included);       *)
(* otherwise length in {1,2,4,8} -> "int/bytes"; otherwise "bytes".        *)
(***************************************************************************)
C9_ValueTypeTable ==
    (fn = "get_value_type")
        => LET d      == utf8_decode(arg)
               isText ==
                   /\ d.ok
                   /\ \A k \in 1..Len(d.text) :
                         \/ char_isprintable(d.text[k])
                         \/ d.text[k] \in {10, 13, 9}
           IN  /\ ret.raised = ""
               /\ ret.value =
                    CASE arg = None -> "None"
                      [] arg # None /\ isText -> "str"
                      [] arg # None /\ ~isText /\ Len(arg) \in {1, 2, 4, 8}
                           -> "int/bytes"
                      [] OTHER -> "bytes"

\* an 8-byte text with a newline in it is "str", not "int/bytes"
C9_Witness ==
    /\ fn = "get_value_type"
    /\ arg # None
    /\ Len(arg) = 8
    /\ \E k \in 1..Len(arg) : arg[k] = 10
    /\ ret.value = "str"

(***************************************************************************)
(* C10: under total-count drift an accepted load(p) emits only rows of     *)
(* entries the cursor yielded: none when the cursor is exhausted while     *)
(* skipping the first start entries, and at most max(0, actual - start)    *)
(* in general.                                                             *)
(***************************************************************************)
C10_NoRowPastTheCursor ==
    (LoadAccepted /\ Cardinality(store) < total_keys)
        => LET start  == PageStart(last.page)
               actual == Cardinality(store)
           IN  /\ Len(rows) <= (IF actual > start THEN actual - start ELSE 0)
               /\ \A k \in 1..Len(rows) :
                     /\ start + k <= actual
                     /\ rows[k] = EntryRow(start + k - 1)

====
